---- MODULE Spec2Model ----
(***************************************************************************)
(* The Vocabulary component of learn_arabic in its two iterations:         *)
(*   "pages"  src/src/pages/Vocabulary.jsx  (grouping, filtering, search,  *)
(*            loading skeleton, intersection observer, bootstrap rule)     *)
(*   "part0"  src/unnamed/part_000          (grouping, intersection        *)
(*            observer with a functional state update)                     *)
(* Strings the code inspects character by character (category names, the   *)
(* search term, the text fields of an entry) are sequences of one-letter   *)
(* strings; a vocabulary item is identified by its position in the input   *)
(* list, as the code holds references to the input objects.                *)
(***************************************************************************)
EXTENDS Integers, Sequences, FiniteSets, TLC

VARIABLES
  variant,            \* which iteration of the component is mounted
  pc,                 \* "start" | "grouped" | "filtered" for the pure pipeline, "ui" for the mounted component
  vocabulary,         \* the vocabulary prop
  selectedDifficulty, \* useState(null)
  value,              \* useSearch: raw input value
  debouncedValue,     \* useSearch: debounced value
  timerRef,           \* useSearch: TRUE while the 300ms timeout is pending
  loading,            \* useState(true)
  loadTimer,          \* TRUE while the loading timeout is pending
  visibleCategories,  \* useState(new Set())
  observer,           \* observerRef.current: connected flag, closure of the callback, observed sections
  effectPending,      \* the observer effect is scheduled and has not run yet
  lastEntries,        \* categories reported intersecting by the latest observer callback
  mounted,            \* FALSE after the component was torn down
  memoGroup,          \* useMemo: { groupedVocabulary, categoryList }
  memoFilter,         \* useMemo: { filteredCategoriesAndWords, totalFilteredWords }
  preBurst,           \* history: debounced value when the pending timer's burst began
  burstKeys,          \* history: keystrokes in the current burst
  burstChanges,       \* history: changes of the debounced value since the burst began
  hasObserverAPI,     \* typeof IntersectionObserver !== "undefined"
  timeouts            \* useSearch: timeouts set by the effect and neither fired nor cleared

vars == << variant, pc, vocabulary, selectedDifficulty, value, debouncedValue,
           timerRef, loading, loadTimer, visibleCategories, observer,
           effectPending, lastEntries, mounted, memoGroup, memoFilter,
           preBurst, burstKeys, burstChanges, hasObserverAPI, timeouts >>

(***************************************************************************)
(* Bounds of the model.                                                    *)
(***************************************************************************)
MaxLen == 3        \* longest vocabulary list given to the grouping pipeline
MaxFilterLen == 2  \* longest vocabulary list given to the filtering pipeline
MaxUILen == 2      \* longest vocabulary list given to the mounted component
MaxBurst == 3      \* keystrokes counted in one burst

(***************************************************************************)
(* JavaScript values.                                                      *)
(***************************************************************************)
\* undefined, as the value of a property an entry does not have
Missing == << "#undefined" >>
\* the vocabulary prop when the caller passes none
Absent == << [absent |-> TRUE] >>
\* null, the initial selectedDifficulty
Null == "null"
\* the text "undefined", which a property key of value undefined turns into
UndefinedText == << "u", "n", "d", "e", "f", "i", "n", "e", "d" >>

Min(a, b) == IF a < b THEN a ELSE b

\* the elements of a sequence
Range(s) == { s[i] : i \in 1..Len(s) }

\* all sequences over S of length at most n
SeqsUpTo(S, n) == UNION { [1..k -> S] : k \in 0..n }

(***************************************************************************)
(* String.prototype: toLowerCase, trim, includes.                          *)
(***************************************************************************)
LowerChar(c) ==
  CASE c = "N" -> "n"
    [] c = "B" -> "b"
    [] c = "X" -> "x"
    [] c = "Y" -> "y"
    [] OTHER -> c

toLowerCase(s) == [i \in 1..Len(s) |-> LowerChar(s[i])]

IsSpace(c) == c = " "

RECURSIVE TrimStart(_)
TrimStart(s) ==
  IF s # << >> /\ IsSpace(Head(s)) THEN TrimStart(Tail(s)) ELSE s

RECURSIVE TrimEnd(_)
TrimEnd(s) ==
  IF s # << >> /\ IsSpace(s[Len(s)]) THEN TrimEnd(SubSeq(s, 1, Len(s) - 1)) ELSE s

trim(s) == TrimEnd(TrimStart(s))

\* s.includes(t): t occurs in s as a contiguous run of characters
includes(s, t) ==
  \E k \in 0..(Len(s) - Len(t)) : SubSeq(s, k + 1, k + Len(t)) = t

(***************************************************************************)
(* DIFFICULTY.ORDER and the weight (DIFFICULTY.ORDER[d] || 0).             *)
(***************************************************************************)
Difficulties == { "easy", "medium", "hard" }

DifficultyWeight(d) ==
  CASE d = "easy" -> 1
    [] d = "medium" -> 2
    [] d = "hard" -> 3
    [] OTHER -> 0

(***************************************************************************)
(* Array.prototype.sort with a comparator key(b) - key(a): a stable sort   *)
(* by descending key. key is a function over the elements of s.            *)
(***************************************************************************)
\* a sort that is not stable: an element goes before those of equal key
RECURSIVE InsertDescBeforeEqual(_, _, _)
InsertDescBeforeEqual(x, sorted, key) ==
  IF sorted = << >> THEN << x >>
  ELSE IF key[Head(sorted)] > key[x]
       THEN << Head(sorted) >> \o InsertDescBeforeEqual(x, Tail(sorted), key)
       ELSE << x >> \o sorted

RECURSIVE InsertDesc(_, _, _)
InsertDesc(x, sorted, key) ==
  IF sorted = << >> THEN << x >>
  ELSE IF key[Head(sorted)] >= key[x]
       THEN << Head(sorted) >> \o InsertDesc(x, Tail(sorted), key)
       ELSE << x >> \o sorted

RECURSIVE SortDesc(_, _)
SortDesc(s, key) ==
  IF s = << >> THEN << >>
  ELSE InsertDesc(s[Len(s)], SortDesc(SubSeq(s, 1, Len(s) - 1), key), key)

(***************************************************************************)
(* The grouping pass shared by both iterations: one pass over the items,   *)
(* keys[i] being the key item i is filed under and weights[i] its weight.  *)
(* acc.order lists the keys in the order they were first set.              *)
(***************************************************************************)
EmptyAcc == [order |-> << >>, grouped |-> << >>, scores |-> << >>]

\* the pass without the has(cat) test: every item starts its group anew
RECURSIVE AccumulateReset(_, _, _, _)
AccumulateReset(keys, weights, i, acc) ==
  IF i > Len(keys) THEN acc
  ELSE LET cat == keys[i]
           isNew == cat \notin DOMAIN acc.grouped
           score == IF isNew THEN 0 ELSE acc.scores[cat]
       IN  AccumulateReset(keys, weights, i + 1,
             [order   |-> IF isNew THEN Append(acc.order, cat) ELSE acc.order,
              grouped |-> (cat :> << i >>) @@ acc.grouped,
              scores  |-> (cat :> (score + weights[i])) @@ acc.scores])

RECURSIVE Accumulate(_, _, _, _)
Accumulate(keys, weights, i, acc) ==
  IF i > Len(keys) THEN acc
  ELSE LET cat == keys[i]
           isNew == cat \notin DOMAIN acc.grouped
           words == IF isNew THEN << >> ELSE acc.grouped[cat]
           score == IF isNew THEN 0 ELSE acc.scores[cat]
       IN  Accumulate(keys, weights, i + 1,
             [order   |-> IF isNew THEN Append(acc.order, cat) ELSE acc.order,
              grouped |-> (cat :> Append(words, i)) @@ acc.grouped,
              scores  |-> (cat :> (score + weights[i])) @@ acc.scores])

\* the weight of every item of a list
WeightsOf(items) == [i \in 1..Len(items) |-> DifficultyWeight(items[i].difficulty)]

\* grouped.get(category).sort(...) for every category
SortWords(grouped, weights) ==
  [cat \in DOMAIN grouped |-> SortDesc(grouped[cat], weights)]

(***************************************************************************)
(* pages: grouped and scores are Maps; Array.from(grouped.keys()) lists    *)
(* the keys in insertion order, and Array.prototype.sort moves an          *)
(* undefined element behind every other one without calling the comparator.*)
(***************************************************************************)
vocabData(vocab) == IF vocab = Absent THEN << >> ELSE vocab

SortCategoriesPages(order, scores) ==
  SortDesc(SelectSeq(order, LAMBDA c : c # Missing), scores)
    \o SelectSeq(order, LAMBDA c : c = Missing)

GroupPages(vocab) ==
  LET items   == vocabData(vocab)
      keys    == [i \in 1..Len(items) |-> items[i].category]
      weights == WeightsOf(items)
      acc     == Accumulate(keys, weights, 1, EmptyAcc)
  IN  [raised |-> FALSE,
       categoryList |-> SortCategoriesPages(acc.order, acc.scores),
       groupedVocabulary |-> SortWords(acc.grouped, weights)]

(***************************************************************************)
(* part0: grouped and scores are objects without prototype; a category is  *)
(* turned into a property key, and Object.keys lists the keys that are     *)
(* array indices first, in ascending numeric order, then the other keys in *)
(* the order they were created. (An array index is a canonical numeric     *)
(* string below 2^32 - 1; the model recognises those of up to nine digits, *)
(* the numbers TLC can hold.)                                              *)
(***************************************************************************)
ToPropertyKey(category) == IF category = Missing THEN UndefinedText ELSE category

Digits == { "0", "1", "2", "3", "4", "5", "6", "7", "8", "9" }

DigitValue(c) ==
  CASE c = "0" -> 0 [] c = "1" -> 1 [] c = "2" -> 2 [] c = "3" -> 3
    [] c = "4" -> 4 [] c = "5" -> 5 [] c = "6" -> 6 [] c = "7" -> 7
    [] c = "8" -> 8 [] OTHER -> 9

RECURSIVE NumericValue(_)
NumericValue(s) ==
  IF s = << >> THEN 0
  ELSE 10 * NumericValue(SubSeq(s, 1, Len(s) - 1)) + DigitValue(s[Len(s)])

IsArrayIndex(key) ==
  /\ key # << >>
  /\ \A i \in 1..Len(key) : key[i] \in Digits
  /\ (Len(key) = 1 \/ key[1] # "0")
  /\ Len(key) <= 9

ObjectKeys(order) ==
  LET indices == SelectSeq(order, IsArrayIndex)
      others  == SelectSeq(order, LAMBDA k : ~IsArrayIndex(k))
      byValue == [k \in Range(indices) |-> 0 - NumericValue(k)]
  IN  SortDesc(indices, byValue) \o others

SortCategoriesPart0(order, scores) == SortDesc(ObjectKeys(order), scores)

GroupPart0(vocab) ==
  IF vocab = Absent
  THEN [raised |-> TRUE, categoryList |-> << >>, groupedVocabulary |-> << >>]
  ELSE LET keys    == [i \in 1..Len(vocab) |-> ToPropertyKey(vocab[i].category)]
           weights == WeightsOf(vocab)
           acc     == Accumulate(keys, weights, 1, EmptyAcc)
       IN  [raised |-> FALSE,
            categoryList |-> SortCategoriesPart0(acc.order, acc.scores),
            groupedVocabulary |-> SortWords(acc.grouped, weights)]

(***************************************************************************)
(* pages: the filtering pipeline (filteredCategoriesAndWords useMemo).     *)
(* words are positions in items; a result is raised when                   *)
(* category.toLowerCase() is called on a category that is undefined.       *)
(***************************************************************************)
RECURSIVE CountWords(_)
CountWords(data) ==
  IF data = << >> THEN 0 ELSE Len(Head(data).words) + CountWords(Tail(data))

\* allWords.filter(word => word.difficulty === selectedDifficulty), or allWords
FilterByDifficulty(items, allWords, selected) ==
  IF selected # Null
  THEN SelectSeq(allWords, LAMBDA w : items[w].difficulty = selected)
  ELSE allWords

\* the difficulty step without the length test: empty categories are kept
DifficultyFilteredDataKeepEmpty(items, group, selected) ==
  [k \in 1..Len(group.categoryList) |->
     [category |-> group.categoryList[k],
      words    |-> FilterByDifficulty(items,
                     group.groupedVocabulary[group.categoryList[k]], selected)]]

DifficultyFilteredData(items, group, selected) ==
  LET perCategory ==
        [k \in 1..Len(group.categoryList) |->
           [category |-> group.categoryList[k],
            words    |-> FilterByDifficulty(items,
                           group.groupedVocabulary[group.categoryList[k]], selected)]]
  IN  SelectSeq(perCategory, LAMBDA r : Len(r.words) > 0)

\* field && field.toLowerCase().includes(lower)
FieldMatches(field, lower) ==
  /\ field # Missing
  /\ field # << >>
  /\ includes(toLowerCase(field), lower)

WordMatches(word, lower) ==
  \/ FieldMatches(word.arabic, lower)
  \/ FieldMatches(word.bengali, lower)
  \/ FieldMatches(word.pronunciation, lower)

CategoryMatches(category, lower) == includes(toLowerCase(category), lower)

SearchFilteredData(items, data, lower) ==
  LET perCategory ==
        [k \in 1..Len(data) |->
           IF CategoryMatches(data[k].category, lower)
           THEN data[k]
           ELSE [category |-> data[k].category,
                 words    |-> SelectSeq(data[k].words,
                                LAMBDA w : WordMatches(items[w], lower))]]
  IN  SelectSeq(perCategory, LAMBDA r : Len(r.words) > 0)

FilterPages(vocab, group, selected, debouncedSearch) ==
  LET items == vocabData(vocab)
      difficultyFilteredData == DifficultyFilteredData(items, group, selected)
      lower == toLowerCase(trim(debouncedSearch))
  IN  IF trim(debouncedSearch) = << >>
      THEN [raised |-> FALSE,
            filteredCategoriesAndWords |-> difficultyFilteredData,
            totalFilteredWords |-> CountWords(difficultyFilteredData)]
      ELSE IF \E k \in 1..Len(difficultyFilteredData) :
                difficultyFilteredData[k].category = Missing
      THEN [raised |-> TRUE,
            filteredCategoriesAndWords |-> << >>,
            totalFilteredWords |-> 0]
      ELSE LET result == SearchFilteredData(items, difficultyFilteredData, lower)
           IN  [raised |-> FALSE,
                filteredCategoriesAndWords |-> result,
                totalFilteredWords |-> CountWords(result)]

\* noResultsMessage useMemo: null, or the message with the parts it names
NoResultsMessage(total, debouncedSearch, selected) ==
  IF total = 0 /\ (debouncedSearch # << >> \/ selected # Null)
  THEN [isNull |-> FALSE, matching |-> debouncedSearch, difficulty |-> selected]
  ELSE [isNull |-> TRUE, matching |-> << >>, difficulty |-> Null]

(***************************************************************************)
(* Inputs.                                                                 *)
(***************************************************************************)
Variants == { "pages", "part0" }

Entry(a, b, p, c, d) ==
  [arabic |-> a, bengali |-> b, pronunciation |-> p, category |-> c, difficulty |-> d]

\* category names: two plain ones, two that read as integers, and none
GroupCategories == { << "N" >>, << "b" >>, << "2" >>, << "1" >>, Missing }

\* the three known difficulties and one outside the enumeration
EntryDifficulties == Difficulties \cup { "expert" }

GroupEntries ==
  { Entry(<< "x" >>, << "y" >>, Missing, c, d) :
      c \in GroupCategories, d \in EntryDifficulties }

NoMemo == [raised |-> FALSE, categoryList |-> << >>, groupedVocabulary |-> << >>]

NoFilter ==
  [raised |-> FALSE, filteredCategoriesAndWords |-> << >>, totalFilteredWords |-> 0]

NoObserver == [connected |-> FALSE, closure |-> {}, observed |-> {}]

\* the state of the hooks before anything happened
HooksAtRest ==
  /\ selectedDifficulty = Null
  /\ value = << >>
  /\ debouncedValue = << >>
  /\ timerRef = FALSE
  /\ loading = TRUE
  /\ loadTimer = FALSE
  /\ visibleCategories = {}
  /\ observer = NoObserver
  /\ effectPending = FALSE
  /\ lastEntries = {}
  /\ mounted = FALSE
  /\ preBurst = << >>
  /\ burstKeys = 0
  /\ burstChanges = 0
  /\ hasObserverAPI = TRUE
  /\ timeouts = 0

(***************************************************************************)
(* The grouping pipeline applied to every vocabulary of at most MaxLen     *)
(* entries, in both iterations.                                            *)
(***************************************************************************)
InitGroup ==
  /\ pc = "start"
  /\ variant \in Variants
  /\ vocabulary \in SeqsUpTo(GroupEntries, MaxLen) \cup { Absent }
  /\ memoGroup = NoMemo
  /\ memoFilter = NoFilter
  /\ HooksAtRest

GroupVocabularyPages ==
  /\ pc = "start"
  /\ variant = "pages"
  /\ memoGroup' = GroupPages(vocabulary)
  /\ pc' = "grouped"
  /\ UNCHANGED << variant, vocabulary, selectedDifficulty, value, debouncedValue,
                  timerRef, loading, loadTimer, visibleCategories, observer,
                  effectPending, lastEntries, mounted, memoFilter,
                  preBurst, burstKeys, burstChanges, hasObserverAPI, timeouts >>

GroupVocabularyPart0 ==
  /\ pc = "start"
  /\ variant = "part0"
  /\ memoGroup' = GroupPart0(vocabulary)
  /\ pc' = "grouped"
  /\ UNCHANGED << variant, vocabulary, selectedDifficulty, value, debouncedValue,
                  timerRef, loading, loadTimer, visibleCategories, observer,
                  effectPending, lastEntries, mounted, memoFilter,
                  preBurst, burstKeys, burstChanges, hasObserverAPI, timeouts >>

NextGroup == GroupVocabularyPages \/ GroupVocabularyPart0

SpecGroup == InitGroup /\ [][NextGroup]_vars

(***************************************************************************)
(* Properties of the grouping pipeline.                                    *)
(***************************************************************************)
\* the name of the group an item belongs in: its category, as the key the
\* iteration files it under
GroupNameOf(item) ==
  IF variant = "part0" THEN ToPropertyKey(item.category) ELSE item.category

Grouped == pc = "grouped" /\ vocabulary # Absent /\ ~memoGroup.raised

\* the places (position in categoryList, position in the group) holding item i
PlacesOf(i) ==
  { p \in (1..Len(memoGroup.categoryList)) \X (1..Len(vocabulary)) :
      /\ p[2] <= Len(memoGroup.groupedVocabulary[memoGroup.categoryList[p[1]]])
      /\ memoGroup.groupedVocabulary[memoGroup.categoryList[p[1]]][p[2]] = i }

\* C1: with no filter applied the category groups partition the input list:
\* every item of the input is in exactly one place of exactly one group, that
\* group is the one named by the item's own category, every group listed is
\* listed once, and the groups hold nothing but items of the input.
C1_GroupsPartitionInput ==
  Grouped =>
    /\ \A i \in 1..Len(vocabulary) :
         /\ Cardinality(PlacesOf(i)) = 1
         /\ \A p \in PlacesOf(i) :
              memoGroup.categoryList[p[1]] = GroupNameOf(vocabulary[i])
    /\ \A j, k \in 1..Len(memoGroup.categoryList) :
         memoGroup.categoryList[j] = memoGroup.categoryList[k] => j = k
    /\ Range(memoGroup.categoryList) = DOMAIN memoGroup.groupedVocabulary
    /\ \A c \in DOMAIN memoGroup.groupedVocabulary :
         Range(memoGroup.groupedVocabulary[c]) \subseteq 1..Len(vocabulary)

\* a list of three items in two categories, one category holding two of them, was grouped
C1_Witness ==
  /\ Grouped
  /\ Len(vocabulary) = 3
  /\ Len(memoGroup.categoryList) = 2
  /\ \E c \in DOMAIN memoGroup.groupedVocabulary :
       Len(memoGroup.groupedVocabulary[c]) = 2

\* the aggregate score of a group: easy 1, medium 2, hard 3, anything else 0
ScoreOf(name) ==
  LET ofItem(i) ==
        IF GroupNameOf(vocabulary[i]) # name THEN 0
        ELSE CASE vocabulary[i].difficulty = "easy" -> 1
               [] vocabulary[i].difficulty = "medium" -> 2
               [] vocabulary[i].difficulty = "hard" -> 3
               [] OTHER -> 0
      sum[i \in 0..Len(vocabulary)] == IF i = 0 THEN 0 ELSE sum[i - 1] + ofItem(i)
  IN  sum[Len(vocabulary)]

\* the position of the first item of the input filed under name
FirstSeen(name) ==
  CHOOSE i \in 1..Len(vocabulary) :
    /\ GroupNameOf(vocabulary[i]) = name
    /\ \A j \in 1..(i - 1) : GroupNameOf(vocabulary[j]) # name

\* C2: for every input list whose entries all name a category, the ranked
\* category list is in descending order of aggregate score, and categories of
\* equal score are in the order in which the input first names them, names
\* that read as integers included.
C2_RankedByScoreThenFirstSeen ==
  (Grouped /\ \A i \in 1..Len(vocabulary) : vocabulary[i].category # Missing) =>
    \A j, k \in 1..Len(memoGroup.categoryList) :
      j < k =>
        LET a == memoGroup.categoryList[j]
            b == memoGroup.categoryList[k]
        IN  \/ ScoreOf(a) > ScoreOf(b)
            \/ ScoreOf(a) = ScoreOf(b) /\ FirstSeen(a) < FirstSeen(b)

\* hard before medium before easy before any other difficulty
RankOf(d) ==
  CASE d = "hard" -> 1 [] d = "medium" -> 2 [] d = "easy" -> 3 [] OTHER -> 4

\* C3: within every category group the entries are ordered hard, medium,
\* easy, then unknown difficulty, and entries of one weight keep the relative
\* order they have in the input list.
C3_WordsByDifficultyStable ==
  Grouped =>
    \A c \in DOMAIN memoGroup.groupedVocabulary :
      LET words == memoGroup.groupedVocabulary[c]
      IN  \A j, k \in 1..Len(words) :
            j < k =>
              \/ RankOf(vocabulary[words[j]].difficulty)
                   < RankOf(vocabulary[words[k]].difficulty)
              \/ /\ RankOf(vocabulary[words[j]].difficulty)
                      = RankOf(vocabulary[words[k]].difficulty)
                 /\ words[j] < words[k]

\* a group was sorted in which a hard entry overtook two easy ones that kept their order
C3_Witness ==
  /\ Grouped
  /\ \E c \in DOMAIN memoGroup.groupedVocabulary :
       /\ memoGroup.groupedVocabulary[c] = << 2, 1, 3 >>
       /\ vocabulary[2].difficulty = "hard"
       /\ vocabulary[1].difficulty = "easy"
       /\ vocabulary[3].difficulty = "easy"

(***************************************************************************)
(* The filtering pipeline of pages applied to every vocabulary of at most  *)
(* MaxFilterLen entries, every selected difficulty and every search term   *)
(* of SearchTerms.                                                         *)
(***************************************************************************)
\* a name of two letters in two cases, a name that is also a text of entries, and none
FilterCategories == { << "N", "b" >>, << "x" >>, Missing }

\* (arabic, bengali, pronunciation): no pronunciation; a pronunciation in upper case
TextProfiles ==
  { << << "x" >>, << "y" >>, Missing >>, << << "z" >>, << "z" >>, << "X" >> >> }

FilterDifficulties == { "easy", "hard", "expert" }

FilterEntries ==
  { Entry(t[1], t[2], t[3], c, d) :
      t \in TextProfiles, c \in FilterCategories, d \in FilterDifficulties }

\* empty; white space only; a category name in another case, to be trimmed;
\* part of a category name; a category name that is also the text of
\* entries, in another case; a text of entries; a text of nothing
SearchTerms ==
  { << >>, << " " >>, << " ", "n", "B" >>, << "B" >>, << "X" >>, << "y" >>, << "q" >> }

InitFilter ==
  /\ pc = "start"
  /\ variant = "pages"
  /\ vocabulary \in SeqsUpTo(FilterEntries, MaxFilterLen) \cup { Absent }
  /\ memoGroup = NoMemo
  /\ memoFilter = NoFilter
  /\ selectedDifficulty \in { Null } \cup Difficulties
  /\ debouncedValue \in SearchTerms
  /\ value = debouncedValue
  /\ timerRef = FALSE
  /\ loading = TRUE
  /\ loadTimer = FALSE
  /\ visibleCategories = {}
  /\ observer = NoObserver
  /\ effectPending = FALSE
  /\ lastEntries = {}
  /\ mounted = FALSE
  /\ preBurst = debouncedValue
  /\ burstKeys = 0
  /\ burstChanges = 0
  /\ hasObserverAPI = TRUE
  /\ timeouts = 0

FilterVocabulary ==
  /\ pc = "grouped"
  /\ variant = "pages"
  /\ memoFilter' = FilterPages(vocabulary, memoGroup, selectedDifficulty, debouncedValue)
  /\ pc' = "filtered"
  /\ UNCHANGED << variant, vocabulary, selectedDifficulty, value, debouncedValue,
                  timerRef, loading, loadTimer, visibleCategories, observer,
                  effectPending, lastEntries, mounted, memoGroup,
                  preBurst, burstKeys, burstChanges, hasObserverAPI, timeouts >>

NextFilter == GroupVocabularyPages \/ FilterVocabulary

SpecFilter == InitFilter /\ [][NextFilter]_vars

(***************************************************************************)
(* Properties of the filtering pipeline.                                   *)
(***************************************************************************)
Filtered == pc = "filtered"

\* the items of the input, the absent input having none
Items == IF vocabulary = Absent THEN << >> ELSE vocabulary

\* the items shown under the k-th category of the filtered output
ShownIn(k) == Range(memoFilter.filteredCategoriesAndWords[k].words)

ShownItems == UNION { ShownIn(k) : k \in 1..Len(memoFilter.filteredCategoriesAndWords) }

\* C4: with an empty search term and selectedDifficulty = d, the filtered
\* output holds exactly the entries of difficulty d, each once (so none of
\* unknown difficulty), no category of the output is empty and
\* totalFilteredWords is the number of entries of difficulty d in the input;
\* with selectedDifficulty unset every entry is kept.
C4_DifficultyFilter ==
  (Filtered /\ debouncedValue = << >>) =>
    /\ ~memoFilter.raised
    /\ \A k \in 1..Len(memoFilter.filteredCategoriesAndWords) :
         Len(memoFilter.filteredCategoriesAndWords[k].words) > 0
    /\ memoFilter.totalFilteredWords = Cardinality(ShownItems)
    /\ memoFilter.totalFilteredWords = CountWords(memoFilter.filteredCategoriesAndWords)
    /\ selectedDifficulty \in Difficulties =>
         ShownItems = { i \in 1..Len(Items) : Items[i].difficulty = selectedDifficulty }
    /\ selectedDifficulty = Null =>
         /\ ShownItems = 1..Len(Items)
         /\ memoFilter.totalFilteredWords = Len(Items)

\* "hard" was selected on a list holding a hard entry and one of unknown
\* difficulty in another category, which the filter dropped
C4_Witness ==
  /\ Filtered
  /\ debouncedValue = << >>
  /\ selectedDifficulty = "hard"
  /\ memoFilter.totalFilteredWords = 1
  /\ Len(memoGroup.categoryList) = 2
  /\ Len(memoFilter.filteredCategoriesAndWords) = 1
  /\ \E i \in 1..Len(Items) : Items[i].difficulty = "expert"

\* the search term as the pipeline compares it
Lower == toLowerCase(trim(debouncedValue))

\* the entries of category c that pass the difficulty filter, in the group's order
DifficultyFilteredOf(c) ==
  SelectSeq(memoGroup.groupedVocabulary[c],
            LAMBDA w : selectedDifficulty = Null \/ Items[w].difficulty = selectedDifficulty)

\* the entries the filtered output shows under category c (none when c is not in it)
OutputOf(c) ==
  IF \E k \in 1..Len(memoFilter.filteredCategoriesAndWords) :
        memoFilter.filteredCategoriesAndWords[k].category = c
  THEN memoFilter.filteredCategoriesAndWords[
         CHOOSE k \in 1..Len(memoFilter.filteredCategoriesAndWords) :
           memoFilter.filteredCategoriesAndWords[k].category = c].words
  ELSE << >>

\* the term occurs in one of the three texts of the item, whatever the letter case
TextContainsTerm(item) ==
  \E f \in { item.arabic, item.bengali, item.pronunciation } :
    f # Missing /\ includes(toLowerCase(f), Lower)

\* C5: when the trimmed search term equals a category's name in any letter
\* case, the filtered output shows under that category all of its
\* difficulty-filtered entries, none removed by text matching; under a
\* category whose name does not contain the term it shows exactly the
\* difficulty-filtered entries whose arabic, bengali or pronunciation
\* contains the term in any letter case (an absent pronunciation never
\* matching).
C5_SearchByCategoryOrText ==
  (Filtered /\ Lower # << >>) =>
    \A c \in Range(memoGroup.categoryList) \ { Missing } :
      /\ toLowerCase(c) = Lower => OutputOf(c) = DifficultyFilteredOf(c)
      /\ ~includes(toLowerCase(c), Lower) =>
           OutputOf(c) = SelectSeq(DifficultyFilteredOf(c),
                                   LAMBDA w : TextContainsTerm(Items[w]))

\* C10: for every input (absent, empty, with entries lacking a category or
\* of a difficulty outside easy/medium/hard) and every filter state,
\* grouping and filtering complete without raising, and an absent or empty
\* input yields an empty category index.
C10_PipelineNeverRaises ==
  (pc \in { "grouped", "filtered" }) =>
    /\ ~memoGroup.raised
    /\ ~memoFilter.raised
    /\ Items = << >> => memoGroup.categoryList = << >>

(***************************************************************************)
(* The mounted component. Every action is one handler or callback together *)
(* with the render it causes; the observer effect runs inside the action   *)
(* when the handler is a discrete event (React flushes passive effects     *)
(* with the commit) and as a step of its own after a timer or an observer  *)
(* callback changed the state.                                             *)
(***************************************************************************)
UICategories == { << "N" >>, << "b" >> }

\* an easy entry of one category and a hard entry of another
UIEntries ==
  { Entry(<< "x" >>, << "y" >>, Missing, << "N" >>, "easy"),
    Entry(<< "x" >>, << "y" >>, Missing, << "b" >>, "hard") }

UIVocabularies == SeqsUpTo(UIEntries, MaxUILen)

\* what the user can have in the search box: nothing, the name of a
\* category, a text no category and no entry holds
UITerms == { << >>, << "n" >>, << "q" >> }

\* the categories the render shows a CategorySection for
DisplayedCategories(var, isLoading, group, filter) ==
  IF var = "part0" THEN Range(group.categoryList)
  ELSE IF isLoading THEN {}
  ELSE { filter.filteredCategoriesAndWords[k].category :
           k \in 1..Len(filter.filteredCategoriesAndWords) }

\* document.querySelectorAll("[data-category]"): an undefined category
\* leaves the section without the attribute
Sections(var, isLoading, group, filter) ==
  DisplayedCategories(var, isLoading, group, filter) \ { Missing }

\* the isVisible prop of a CategorySection
IsVisible(var, visible, category) ==
  IF var = "part0" THEN category \in visible
  ELSE visible = {} \/ category \in visible

\* the observer effect: a new IntersectionObserver whose callback closes
\* over visible (pages) and which observes the sections now in the document
MakeObserver(var, visible, sections) ==
  IF ~hasObserverAPI THEN NoObserver
  ELSE [connected |-> TRUE,
        closure   |-> IF var = "pages" THEN visible ELSE {},
        observed  |-> sections]

InitUI ==
  /\ pc = "ui"
  /\ variant \in Variants
  /\ hasObserverAPI \in BOOLEAN
  /\ vocabulary \in UIVocabularies
  /\ mounted = TRUE
  /\ selectedDifficulty = Null
  /\ value = << >>
  /\ debouncedValue = << >>
  /\ timerRef = (variant = "pages")
  /\ timeouts = IF variant = "pages" THEN 1 ELSE 0
  /\ loading = (variant = "pages")
  /\ loadTimer = (variant = "pages" /\ Len(vocabulary) > 0)
  /\ visibleCategories = {}
  /\ memoGroup = IF variant = "pages" THEN GroupPages(vocabulary) ELSE GroupPart0(vocabulary)
  /\ memoFilter = IF variant = "pages"
                  THEN FilterPages(vocabulary, memoGroup, Null, << >>)
                  ELSE NoFilter
  /\ observer = MakeObserver(variant, {}, Sections(variant, loading, memoGroup, memoFilter))
  /\ effectPending = FALSE
  /\ lastEntries = {}
  /\ preBurst = << >>
  /\ burstKeys = 0
  /\ burstChanges = 0

Mounted == pc = "ui" /\ mounted

\* the useSearch effect not run on a change of value: no timeout is set
RestartTimerSkipped ==
  /\ UNCHANGED << timerRef, timeouts, preBurst, burstChanges >>
  /\ burstKeys' = Min(burstKeys + 1, MaxBurst)

\* useSearch effect: the pending timeout is cleared and a new one set
RestartTimer ==
  /\ timeouts' = (IF timerRef THEN timeouts - 1 ELSE timeouts) + 1
  /\ timerRef' = TRUE
  /\ IF timerRef
     THEN /\ burstKeys' = Min(burstKeys + 1, MaxBurst)
          /\ UNCHANGED << preBurst, burstChanges >>
     ELSE /\ burstKeys' = 1
          /\ preBurst' = debouncedValue
          /\ burstChanges' = 0

\* onSearchChange: setValue(v), then the useSearch effect
Keystroke(v) ==
  /\ Mounted
  /\ variant = "pages"
  /\ v # value
  /\ value' = v
  /\ RestartTimer
  /\ observer' = IF effectPending
                 THEN MakeObserver(variant, visibleCategories,
                                   Sections(variant, loading, memoGroup, memoFilter))
                 ELSE observer
  /\ effectPending' = FALSE
  /\ UNCHANGED << variant, pc, vocabulary, selectedDifficulty, debouncedValue,
                  loading, loadTimer, visibleCategories, lastEntries, mounted,
                  memoGroup, memoFilter, hasObserverAPI >>

\* the timeout of useSearch: setDebouncedValue(value)
TimerFire ==
  /\ pc = "ui"
  /\ timerRef
  /\ timerRef' = FALSE
  /\ timeouts' = timeouts - 1
  /\ debouncedValue' = value
  /\ memoFilter' = FilterPages(vocabulary, memoGroup, selectedDifficulty, debouncedValue')
  /\ burstChanges' = IF value # debouncedValue THEN burstChanges + 1 ELSE burstChanges
  /\ effectPending' = (effectPending \/ value # debouncedValue)
  /\ UNCHANGED << variant, pc, vocabulary, selectedDifficulty, value, loading,
                  loadTimer, visibleCategories, observer, lastEntries, mounted,
                  memoGroup, preBurst, burstKeys, hasObserverAPI >>

\* onSelectDifficulty: setSelectedDifficulty(d)
SelectDifficulty(d) ==
  /\ Mounted
  /\ variant = "pages"
  /\ d # selectedDifficulty
  /\ selectedDifficulty' = d
  /\ memoFilter' = FilterPages(vocabulary, memoGroup, d, debouncedValue)
  /\ observer' = MakeObserver(variant, visibleCategories,
                              Sections(variant, loading, memoGroup, memoFilter'))
  /\ effectPending' = FALSE
  /\ UNCHANGED << variant, pc, vocabulary, value, debouncedValue, timerRef, loading,
                  loadTimer, visibleCategories, lastEntries, mounted, memoGroup,
                  preBurst, burstKeys, burstChanges, hasObserverAPI, timeouts >>

\* the "Clear filters" button of the no-results panel
ClearFilters ==
  /\ Mounted
  /\ variant = "pages"
  /\ ~loading
  /\ Len(memoFilter.filteredCategoriesAndWords) = 0
  /\ value # << >> \/ selectedDifficulty # Null
  /\ value' = << >>
  /\ selectedDifficulty' = Null
  /\ IF value # << >>
     THEN RestartTimer
     ELSE UNCHANGED << timerRef, timeouts, burstKeys, preBurst, burstChanges >>
  /\ memoFilter' = FilterPages(vocabulary, memoGroup, Null, debouncedValue)
  /\ observer' = IF selectedDifficulty # Null \/ effectPending
                 THEN MakeObserver(variant, visibleCategories,
                                   Sections(variant, loading, memoGroup, memoFilter'))
                 ELSE observer
  /\ effectPending' = FALSE
  /\ UNCHANGED << variant, pc, vocabulary, debouncedValue, loading, loadTimer,
                  visibleCategories, lastEntries, mounted, memoGroup, hasObserverAPI >>

\* the timeout of the loading effect: setLoading(false)
LoadTimerFire ==
  /\ pc = "ui"
  /\ loadTimer
  /\ loadTimer' = FALSE
  /\ loading' = FALSE
  /\ UNCHANGED << variant, pc, vocabulary, selectedDifficulty, value, debouncedValue,
                  timerRef, visibleCategories, observer, effectPending, lastEntries,
                  mounted, memoGroup, memoFilter, preBurst, burstKeys, burstChanges,
                  hasObserverAPI, timeouts >>

\* the parent passes another vocabulary list
SetVocabulary(v) ==
  /\ Mounted
  /\ v # vocabulary
  /\ vocabulary' = v
  /\ IF variant = "pages"
     THEN /\ memoGroup' = GroupPages(v)
          /\ memoFilter' = FilterPages(v, memoGroup', selectedDifficulty, debouncedValue)
          /\ loadTimer' = (Len(vocabData(v)) > 0)
          /\ UNCHANGED effectPending
     ELSE /\ memoGroup' = GroupPart0(v)
          /\ effectPending' =
               (effectPending \/ Len(memoGroup'.categoryList) # Len(memoGroup.categoryList))
          /\ UNCHANGED << memoFilter, loadTimer >>
  /\ UNCHANGED << variant, pc, selectedDifficulty, value, debouncedValue, timerRef,
                  loading, visibleCategories, observer, lastEntries, mounted,
                  preBurst, burstKeys, burstChanges, hasObserverAPI, timeouts >>

\* a callback that reports every observed section as intersecting
ObserverCallbackAll(intersecting) ==
  /\ pc = "ui"
  /\ observer.connected
  /\ intersecting # {}
  /\ intersecting \subseteq
       (observer.observed \cap Sections(variant, loading, memoGroup, memoFilter))
  /\ lastEntries' = intersecting
  /\ visibleCategories' = visibleCategories \cup observer.observed
  /\ effectPending' = (effectPending \/ variant = "pages")
  /\ UNCHANGED << variant, pc, vocabulary, selectedDifficulty, value, debouncedValue,
                  timerRef, loading, loadTimer, observer, mounted, memoGroup,
                  memoFilter, preBurst, burstKeys, burstChanges, hasObserverAPI, timeouts >>

\* the IntersectionObserver delivers its entries; intersecting are the
\* categories of the entries with isIntersecting
ObserverCallback(intersecting) ==
  /\ pc = "ui"
  /\ observer.connected
  /\ intersecting # {}
  /\ intersecting \subseteq
       (observer.observed \cap Sections(variant, loading, memoGroup, memoFilter))
  /\ lastEntries' = intersecting
  /\ IF variant = "pages"
     THEN LET changed == ~(intersecting \subseteq observer.closure)
          IN  /\ visibleCategories' =
                   IF changed THEN observer.closure \cup intersecting
                   ELSE visibleCategories
              /\ effectPending' = (effectPending \/ changed)
     ELSE /\ visibleCategories' = visibleCategories \cup intersecting
          /\ UNCHANGED effectPending
  /\ UNCHANGED << variant, pc, vocabulary, selectedDifficulty, value, debouncedValue,
                  timerRef, loading, loadTimer, observer, mounted, memoGroup,
                  memoFilter, preBurst, burstKeys, burstChanges, hasObserverAPI, timeouts >>

\* the observer effect, run after the render that changed its dependencies
RunObserverEffect ==
  /\ Mounted
  /\ effectPending
  /\ effectPending' = FALSE
  /\ observer' = MakeObserver(variant, visibleCategories,
                              Sections(variant, loading, memoGroup, memoFilter))
  /\ UNCHANGED << variant, pc, vocabulary, selectedDifficulty, value, debouncedValue,
                  timerRef, loading, loadTimer, visibleCategories, lastEntries,
                  mounted, memoGroup, memoFilter, preBurst, burstKeys, burstChanges,
                  hasObserverAPI, timeouts >>

\* a teardown whose cleanups leave the two timeouts pending
UnmountKeepsTimers ==
  /\ Mounted
  /\ mounted' = FALSE
  /\ effectPending' = FALSE
  /\ observer' = [observer EXCEPT !.connected = FALSE]
  /\ UNCHANGED << variant, pc, vocabulary, selectedDifficulty, value, debouncedValue,
                  timerRef, timeouts, loading, loadTimer, visibleCategories,
                  lastEntries, memoGroup, memoFilter, preBurst, burstKeys,
                  burstChanges, hasObserverAPI >>

\* the component is torn down: the cleanups of the effects run
Unmount ==
  /\ Mounted
  /\ mounted' = FALSE
  /\ timeouts' = IF timerRef THEN timeouts - 1 ELSE timeouts
  /\ timerRef' = FALSE
  /\ loadTimer' = FALSE
  /\ effectPending' = FALSE
  /\ observer' = [observer EXCEPT !.connected = FALSE]
  /\ UNCHANGED << variant, pc, vocabulary, selectedDifficulty, value, debouncedValue,
                  loading, visibleCategories, lastEntries, memoGroup, memoFilter,
                  preBurst, burstKeys, burstChanges, hasObserverAPI >>

Next ==
  \/ \E v \in UITerms : Keystroke(v)
  \/ TimerFire
  \/ \E d \in { Null } \cup Difficulties : SelectDifficulty(d)
  \/ ClearFilters
  \/ LoadTimerFire
  \/ \E v \in UIVocabularies : SetVocabulary(v)
  \/ \E s \in SUBSET UICategories : ObserverCallback(s)
  \/ RunObserverEffect
  \/ Unmount

Spec == InitUI /\ [][Next]_vars

\* the browser runs a timeout that stays pending, and React runs an effect it
\* has scheduled; nothing obliges the user to type or the page to scroll
SpecFair ==
  /\ Spec
  /\ WF_vars(TimerFire)
  /\ WF_vars(LoadTimerFire)
  /\ WF_vars(RunObserverEffect)

(***************************************************************************)
(* Properties of the mounted component.                                    *)
(***************************************************************************)
Displayed == DisplayedCategories(variant, loading, memoGroup, memoFilter)

Revealed(c) == IsVisible(variant, visibleCategories, c)

Message ==
  NoResultsMessage(memoFilter.totalFilteredWords, debouncedValue, selectedDifficulty)

\* nothing is scheduled: no timeout is pending and every effect has run
Settled == Mounted /\ ~timerRef /\ ~loadTimer /\ ~effectPending

\* a step taken on an input: a keystroke, a difficulty selection, "Clear
\* filters", another vocabulary prop, or the teardown
InputArrives ==
  \/ value' # value
  \/ selectedDifficulty' # selectedDifficulty
  \/ vocabulary' # vocabulary
  \/ mounted' # mounted

\* the list is rendered and is the pipeline's output for the raw search value
\* and the selected difficulty
ShowsPipelineResult ==
  /\ ~loading
  /\ memoFilter =
       FilterPages(vocabulary, GroupPages(vocabulary), selectedDifficulty, value)
  /\ (value = << >> /\ selectedDifficulty = Null) =>
       /\ memoFilter.totalFilteredWords = Len(vocabData(vocabulary))
       /\ Displayed = Range(GroupPages(vocabulary).categoryList)

\* the search term names something: a category or a text of an entry holds it
TermMatchesSomething ==
  \/ \E c \in Range(memoGroup.categoryList) \ { Missing } : includes(toLowerCase(c), Lower)
  \/ \E i \in 1..Len(Items) : TextContainsTerm(Items[i])

\* C6: whenever the debounced search term (not blank) matches no category
\* name and no entry field, the filtered output has no category,
\* totalFilteredWords is 0 and the no-results message is not null; and
\* whenever the list area shows no category, the no-results message it
\* renders is not null.
C6_NoResultsMessageDefined ==
  (Mounted /\ variant = "pages") =>
    /\ (Lower # << >> /\ ~TermMatchesSomething) =>
         /\ Len(memoFilter.filteredCategoriesAndWords) = 0
         /\ memoFilter.totalFilteredWords = 0
         /\ ~Message.isNull
    /\ (~loading /\ Len(memoFilter.filteredCategoriesAndWords) = 0) => ~Message.isNull

\* C7 as stated: when the window after the last keystroke of a burst has
\* elapsed, the debounced value has changed exactly once since the burst began.
C7_DebouncedChangesExactlyOnce ==
  (Mounted /\ variant = "pages" /\ ~timerRef /\ burstKeys > 0) => burstChanges = 1

\* C7, amended: the raw value follows every keystroke at once, and the
\* keystroke restarts the window without touching the debounced value; while
\* the window is open the debounced value is the one from before the burst;
\* when the window after the last keystroke has elapsed the debounced value
\* is the final raw value, having changed once if that value differs from the
\* one before the burst and not at all otherwise; and the filtered output is
\* always the pipeline's result for the debounced value, never for a raw one.
C7_DebounceAtMostOncePerBurst ==
  /\ []((pc = "ui" /\ variant = "pages") =>
          /\ timerRef => (debouncedValue = preBurst /\ burstChanges = 0)
          /\ (mounted /\ ~timerRef) =>
               /\ debouncedValue = value
               /\ burstChanges = IF burstKeys > 0 /\ value # preBurst THEN 1 ELSE 0
          /\ memoFilter =
               FilterPages(vocabulary, memoGroup, selectedDifficulty, debouncedValue))
  /\ [][value' # value => (timerRef' /\ debouncedValue' = debouncedValue)]_vars

\* a burst of three keystrokes ended and the debounced value took the final one
C7_Witness ==
  /\ Mounted
  /\ variant = "pages"
  /\ ~timerRef
  /\ burstKeys = 3
  /\ burstChanges = 1
  /\ debouncedValue = value
  /\ value # preBurst

\* C8: a displayed category is rendered revealed exactly when it is in the
\* visibility set or the visibility set is empty; so before any
\* intersection signal fired, and without IntersectionObserver, every
\* displayed category is revealed.
C8_RevealedIffInSetOrSetEmpty ==
  Mounted =>
    \A c \in Displayed :
      Revealed(c) <=> (c \in visibleCategories \/ visibleCategories = {})

\* C9 as stated: a category rendered revealed is not rendered hidden by the
\* next step (categories revealed under the bootstrap rule stay revealed when
\* the signal of another category fires).
C9_RevealedStaysRevealed ==
  [][\A c \in UICategories :
       (Mounted /\ mounted' /\ c \in Displayed /\ c \in Displayed' /\ Revealed(c))
         => Revealed(c)']_vars

\* C9, amended: in pages, when the first intersection signal makes the
\* visibility set non-empty, the set holds exactly the categories the signal
\* reported; every displayed category was revealed until then (bootstrap
\* rule), and from that step on the reported ones are rendered revealed and
\* every other displayed category is rendered hidden.
C9_FirstSignalHidesTheOthers ==
  [][(pc = "ui" /\ variant = "pages" /\ visibleCategories = {} /\ visibleCategories' # {})
       => /\ visibleCategories' = lastEntries'
          /\ \A c \in Displayed \cap Displayed' :
               /\ Revealed(c)
               /\ Revealed(c)' <=> c \in lastEntries']_vars

\* the signal of one category fired first and the other displayed category is hidden
C9_Witness ==
  /\ Mounted
  /\ variant = "pages"
  /\ lastEntries = { << "N" >> }
  /\ visibleCategories = { << "N" >> }
  /\ Displayed = { << "N" >>, << "b" >> }
  /\ ~Revealed(<< "b" >>)

\* C11: the visibility set only grows: no step, whatever the interleaving of
\* observer callbacks, re-renders and observer re-creation, publishes a
\* visibility set that lacks a category the set held before the step.
C11_VisibilitySetOnlyGrows ==
  [][pc = "ui" => visibleCategories \subseteq visibleCategories']_vars

\* C12: once the component is torn down no debounce timeout and no loading
\* timeout is pending and the observer is disconnected, and no later step
\* changes the debounced value, the visibility set or the loading flag; a
\* keystroke that arrives while a debounce timeout is pending clears it as
\* it sets the new one, so at most one debounce timeout is pending at any time.
C12_TeardownCancelsEverything ==
  /\ [](pc = "ui" =>
          /\ timeouts <= 1
          /\ ~mounted =>
               (timeouts = 0 /\ ~timerRef /\ ~loadTimer /\ ~observer.connected))
  /\ [][(pc = "ui" /\ ~mounted)
          => UNCHANGED << debouncedValue, visibleCategories, loading >>]_vars
  /\ [][(pc = "ui" /\ timerRef /\ value' # value) => timeouts' = timeouts]_vars

\* torn down during the loading delay and in a burst of keystrokes whose
\* timeout had been replaced and was still pending
C12_Witness ==
  /\ pc = "ui"
  /\ ~mounted
  /\ variant = "pages"
  /\ hasObserverAPI
  /\ loading
  /\ Len(vocabulary) > 0
  /\ burstKeys >= 2
  /\ value # debouncedValue

\* C13: in every settled state of a component that has IntersectionObserver,
\* the connected observer is attached to exactly the category sections
\* rendered now: each rendered section is observed and no removed one is.
C13_SettledObserverWatchesRenderedSections ==
  (Settled /\ hasObserverAPI) =>
    /\ observer.connected
    /\ observer.observed = Sections(variant, loading, memoGroup, memoFilter)

\* C14: when inputs stop arriving (no keystroke, no difficulty selection, no
\* "Clear filters", no other vocabulary), the pages view eventually leaves
\* the loading skeleton for good and shows the categories and the count the
\* pipeline gives for the raw search value and the selected difficulty, for
\* every vocabulary, the empty one included; with no filter left that is the
\* full list; and loading, once false, is never true again.
C14_EventuallyShowsPipelineResult ==
  /\ \/ []<><<InputArrives>>_vars
     \/ <>[]((Mounted /\ variant = "pages") => ShowsPipelineResult)
  /\ [][(pc = "ui" /\ ~loading) => ~loading']_vars

====
